---- MODULE Spec2Model ----
(***************************************************************************)
(* A model of tmt's fmf discover plugin (tmt/steps/discover/fmf.py):       *)
(* DiscoverFmf.wake(), DiscoverFmf.go() and DiscoverFmf.tests().           *)
(*                                                                         *)
(* Python strings are sequences of one-character strings, so that the      *)
(* string and path functions the plugin calls (str.lstrip, str.split,     *)
(* os.path.join, os.path.dirname, os.path.relpath, re.escape) are          *)
(* computed character by character as the library computes them.           *)
(***************************************************************************)
EXTENDS Naturals, Sequences, FiniteSets, TLC

(***************************************************************************)
(* String and path library.                                                *)
(***************************************************************************)

\* str.lstrip(c): the string without its leading characters c.
RECURSIVE LStrip(_, _)
LStrip(s, c) ==
    IF s # <<>> /\ Head(s) = c THEN LStrip(Tail(s), c) ELSE s

\* str.rstrip(c): the string without its trailing characters c.
RECURSIVE RStrip(_, _)
RStrip(s, c) ==
    IF s # <<>> /\ s[Len(s)] = c THEN RStrip(SubSeq(s, 1, Len(s) - 1), c) ELSE s

\* str.rfind(c) + 1: the position (1-based) of the last c in s, 0 if none.
RECURSIVE RFind(_, _)
RFind(s, c) ==
    IF s = <<>> THEN 0
    ELSE IF s[Len(s)] = c THEN Len(s)
    ELSE RFind(SubSeq(s, 1, Len(s) - 1), c)

\* str.split(sep) for a one-character separator: always at least one field.
RECURSIVE SplitAcc(_, _, _, _)
SplitAcc(s, sep, cur, acc) ==
    IF s = <<>> THEN Append(acc, cur)
    ELSE IF Head(s) = sep THEN SplitAcc(Tail(s), sep, <<>>, Append(acc, cur))
    ELSE SplitAcc(Tail(s), sep, Append(cur, Head(s)), acc)

Split(s, sep) == SplitAcc(s, sep, <<>>, <<>>)

\* sep.join(parts)
RECURSIVE JoinWith(_, _)
JoinWith(parts, sep) ==
    IF parts = <<>> THEN <<>>
    ELSE IF Len(parts) = 1 THEN parts[1]
    ELSE parts[1] \o <<sep>> \o JoinWith(Tail(parts), sep)

\* The elements of a sequence that are not the empty string.
RECURSIVE NonEmpty(_)
NonEmpty(parts) ==
    IF parts = <<>> THEN <<>>
    ELSE IF Head(parts) = <<>> THEN NonEmpty(Tail(parts))
    ELSE <<Head(parts)>> \o NonEmpty(Tail(parts))

\* posixpath.join(a, b)
PathJoin(a, b) ==
    IF b # <<>> /\ Head(b) = "/" THEN b
    ELSE IF a = <<>> \/ a[Len(a)] = "/" THEN a \o b
    ELSE a \o <<"/">> \o b

\* posixpath.dirname(p)
Dirname(p) ==
    LET head == SubSeq(p, 1, RFind(p, "/"))
    IN  IF head # <<>> /\ LStrip(head, "/") # <<>> THEN RStrip(head, "/") ELSE head

\* posixpath.normpath(p): the components of p with "" and "." dropped and
\* ".." resolved, behind the initial slashes of p (one, or two if exactly two).
RECURSIVE NormComps(_, _, _)
NormComps(comps, acc, rooted) ==
    IF comps = <<>> THEN acc
    ELSE LET c == Head(comps)
         IN  IF c = <<>> \/ c = <<".">> THEN NormComps(Tail(comps), acc, rooted)
             ELSE IF c # <<".", ".">>
                     \/ (~rooted /\ acc = <<>>)
                     \/ (acc # <<>> /\ acc[Len(acc)] = <<".", ".">>)
                  THEN NormComps(Tail(comps), Append(acc, c), rooted)
             ELSE IF acc # <<>>
                  THEN NormComps(Tail(comps), SubSeq(acc, 1, Len(acc) - 1), rooted)
             ELSE NormComps(Tail(comps), acc, rooted)

Normpath(p) ==
    IF p = <<>> THEN <<".">>
    ELSE LET slashes == Len(p) - Len(LStrip(p, "/"))
             initial == IF slashes = 0 THEN <<>>
                        ELSE IF slashes = 2 THEN <<"/", "/">>
                        ELSE <<"/">>
             body == JoinWith(NormComps(Split(p, "/"), <<>>, slashes > 0), "/")
         IN  IF initial \o body = <<>> THEN <<".">> ELSE initial \o body

\* posixpath.abspath(p) in the working directory cwd.
Abspath(p, cwd) ==
    IF p # <<>> /\ Head(p) = "/" THEN Normpath(p) ELSE Normpath(PathJoin(cwd, p))

\* The length of the longest common prefix of two sequences.
RECURSIVE CommonLen(_, _)
CommonLen(a, b) ==
    IF a = <<>> \/ b = <<>> \/ Head(a) # Head(b) THEN 0
    ELSE 1 + CommonLen(Tail(a), Tail(b))

\* What Relpath gives where posixpath.relpath raises ValueError('no path
\* specified'): no path, as a path is a sequence of single characters.
NoPathSpecified == <<"ValueError: no path specified">>

\* posixpath.relpath(p, start) in the working directory cwd; for the empty
\* path it raises ValueError.
Relpath(p, start, cwd) ==
    IF p = <<>> THEN NoPathSpecified ELSE
    LET start_list == NonEmpty(Split(Abspath(start, cwd), "/"))
        path_list  == NonEmpty(Split(Abspath(p, cwd), "/"))
        i          == CommonLen(start_list, path_list)
        rel_list   == [k \in 1..(Len(start_list) - i) |-> <<".", ".">>]
                      \o SubSeq(path_list, i + 1, Len(path_list))
    IN  IF rel_list = <<>> THEN <<".">> ELSE JoinWith(rel_list, "/")

\* The vertical tab, chr(11), for which TLA+ has no escape: the character
\* itself is between the quotes.
VerticalTab == ""

\* The characters re.escape() (Python 3.7 and later) puts a backslash before.
ReSpecial ==
    {"(", ")", "[", "]", "{", "}", "?", "*", "+", "-", "|", "^", "$", "\\",
     ".", "&", "~", "#", " ", "\t", "\n", "\r", VerticalTab, "\f"}

\* re.escape(s)
RECURSIVE ReEscape(_)
ReEscape(s) ==
    IF s = <<>> THEN <<>>
    ELSE (IF Head(s) \in ReSpecial THEN <<"\\", Head(s)>> ELSE <<Head(s)>>)
         \o ReEscape(Tail(s))

\* str.strip(c)
Strip(s, c) == RStrip(LStrip(s, c), c)

(***************************************************************************)
(* Regular expressions, as far as name patterns use them: "^" first and    *)
(* "$" last anchor the match, "\c" is the character c, "." is any          *)
(* character, every other character is itself.  ReSearch is re.search.     *)
(***************************************************************************)

\* The pattern as a sequence of items: [any |-> TRUE] or [any |-> FALSE, c |-> ch].
RECURSIVE ReItems(_)
ReItems(p) ==
    IF p = <<>> THEN <<>>
    ELSE IF Head(p) = "\\" /\ Len(p) >= 2
         THEN <<[any |-> FALSE, c |-> p[2]]>> \o ReItems(Tail(Tail(p)))
    ELSE IF Head(p) = "."
         THEN <<[any |-> TRUE, c |-> "."]>> \o ReItems(Tail(p))
    ELSE <<[any |-> FALSE, c |-> Head(p)]>> \o ReItems(Tail(p))

\* The items match the characters of s from position i on.
ReItemsAt(items, s, i) ==
    /\ i + Len(items) - 1 <= Len(s)
    /\ \A k \in 1..Len(items) : items[k].any \/ items[k].c = s[i + k - 1]

ReSearch(pattern, s) ==
    LET bol   == pattern # <<>> /\ Head(pattern) = "^"
        p1    == IF bol THEN Tail(pattern) ELSE pattern
        eol   == /\ p1 # <<>>
                 /\ p1[Len(p1)] = "$"
                 /\ (Len(p1) = 1 \/ p1[Len(p1) - 1] # "\\")
        p2    == IF eol THEN SubSeq(p1, 1, Len(p1) - 1) ELSE p1
        items == ReItems(p2)
    IN  \E i \in 1..(Len(s) + 1) :
            /\ bol => i = 1
            /\ ReItemsAt(items, s, i)
            /\ eol => i + Len(items) - 1 = Len(s)

(***************************************************************************)
(* Python values: a value is a record [t, v] with t its type.  A str holds *)
(* its characters, a list or a tuple its elements (strings), a bool its    *)
(* truth value; None holds nothing.                                        *)
(***************************************************************************)

PyNone     == [t |-> "none", v |-> <<>>]
PyStr(s)   == [t |-> "str", v |-> s]
PyList(l)  == [t |-> "list", v |-> l]
PyTuple(l) == [t |-> "tuple", v |-> l]
PyBool(b)  == [t |-> "bool", v |-> b]

\* Python's truth value of a value: `if value:`.
Truthy(x) == IF x.t = "none" THEN FALSE ELSE IF x.t = "bool" THEN x.v ELSE x.v # <<>>

\* Python's `a or b`.
PyOr(a, b) == IF Truthy(a) THEN a ELSE b

(***************************************************************************)
(* The strings of the model.                                               *)
(***************************************************************************)

S_tests    == <<"t", "e", "s", "t", "s">>
S_slash_tests == <<"/", "t", "e", "s", "t", "s">>
S_master   == <<"m", "a", "s", "t", "e", "r">>
S_dot      == <<".">>
S_url      == <<"g", "i", "t", ":", "u">>
S_refurl   == <<"g", "i", "t", ":", "r">>
S_ref      == <<"d", "e", "v">>
S_foo      == <<"f", "o", "o">>
S_tier1    == <<"t", "i", "e", "r", ":", " ", "1">>

\* The directories of the file system the plugin runs in: /r is a git
\* repository with the subdirectory /r/s, /n is a directory outside any
\* repository; /x does not exist.
D_root     == <<"/">>
D_r        == <<"/", "r">>
D_r_s      == <<"/", "r", "/", "s">>
D_n        == <<"/", "n">>
D_x        == <<"/", "x">>
D_s        == <<"/", "s">>
Dirs       == {D_root, D_r, D_r_s, D_n}
GitRepos   == {D_r}

\* The process's working directory and the run's workdir (self.workdir).
Cwd        == D_r
Workdir    == <<"/", "w">>

\* No directory: what a lookup gives when a component of the path is none.
NoDir == <<>>

\* The directory the file system finds from the directory cur by the
\* components comps, each resolved in turn: '' and '.' stay, '..' goes to
\* the parent, a name goes to the entry of that name, which has to be a
\* directory.
RECURSIVE Lookup(_, _)
Lookup(comps, cur) ==
    IF comps = <<>> THEN cur
    ELSE LET c    == Head(comps)
             next == IF c = <<>> \/ c = <<".">> THEN cur
                     ELSE IF c = <<".", ".">>
                     THEN (IF cur = D_root THEN D_root ELSE Dirname(cur))
                     ELSE PathJoin(cur, c)
         IN  IF next \in Dirs THEN Lookup(Tail(comps), next) ELSE NoDir

\* The directory the file system resolves the path p to, NoDir if none.
RealDir(p) ==
    IF p = <<>> THEN NoDir
    ELSE Lookup(Split(p, "/"), IF Head(p) = "/" THEN D_root ELSE Cwd)

\* os.path.isdir(p): the file system resolves p, from the root or from the
\* working directory, to a directory; the empty path is none.
IsDir(p) == RealDir(p) \in Dirs

\* The repository that holds the directory dir (as the file system names
\* it): dir or the nearest directory above it that is a repository's root,
\* NoDir if there is none.
RECURSIVE RepositoryOf(_)
RepositoryOf(dir) ==
    IF dir \in GitRepos THEN dir
    ELSE IF dir \notin Dirs \/ dir = D_root \/ Dirname(dir) = dir THEN NoDir
    ELSE RepositoryOf(Dirname(dir))

\* The output of `git rev-parse --show-toplevel` run with cwd=dir: the
\* repository that holds the directory, which git names as the file system
\* does ('/r' in '//r/s'), and a newline, or None when the command fails
\* (tmt.utils.RunError), the directory being in no repository.
GitToplevel(dir) ==
    LET repo == RepositoryOf(RealDir(dir))
    IN  IF repo = NoDir THEN PyNone ELSE PyStr(repo \o <<"\n">>)

(***************************************************************************)
(* The plugin's state.                                                     *)
(***************************************************************************)

VARIABLES
    pc,          \* where the plugin is: "init", then wake(), then go()'s steps
    conf,        \* self.data as the plugin was constructed with (a history variable)
    data,        \* self.data: the step configuration, a function of its keys
    data0,       \* self.data as wake() left it (a history variable)
    opts,        \* the command line options, as self.opt() returns them
    root,        \* self.step.plan.run.tree.root
    path,        \* go()'s local `path`
    git_root,    \* go()'s local `git_root`: the source of the copy
    ref,         \* go()'s local `ref`
    tree_path,   \* go()'s local `tree_path`
    isdir,       \* what os.path.isdir(tree_path) answered at line 171
    prefix_path, \* go()'s local `prefix_path`
    filters,     \* go()'s local `filters`
    names,       \* go()'s local `names`
    changed,     \* the changed files `git log` listed
    modified,    \* go()'s local `modified`
    query,       \* the arguments tree.tests() was called with
    tests_,      \* self._tests
    idx,         \* the position of go()'s loop over self._tests
    log,         \* the external operations started so far, in order
    err          \* the exception go() ended with, "" if none

vars == <<pc, conf, data, data0, opts, root, path, git_root, ref, tree_path, isdir,
          prefix_path, filters, names, changed, modified, query, tests_, idx, log,
          err>>

\* self.opt(option): the command line's value of an option.
Opt(option) == opts[option]

\* The function d without the key k.
Without(d, k) == [x \in DOMAIN d \ {k} |-> d[x]]

\* The function d with d[k] = value, k a key of d or a new one.
With(d, k, value) == [x \in DOMAIN d \cup {k} |-> IF x = k THEN value ELSE d[x]]

\* No default for ref (mutant).
Default_NoMaster(d, option, default) ==
    IF option = "reference_ref" THEN PyStr(S_master) ELSE default

\* DiscoverFmf.default(option, default)
Default(d, option, default) ==
    IF option = "ref" /\ Truthy(IF "url" \in DOMAIN d THEN d["url"] ELSE PyNone)
    THEN PyStr(S_master)
    ELSE IF option = "reference_ref" THEN PyStr(S_master)
    ELSE default

\* self.get(option, default): the configured value, else the plugin's default.
Get(d, option, default) ==
    IF option \in DOMAIN d THEN d[option] ELSE Default(d, option, default)

(***************************************************************************)
(* The configurations and command lines the plugin is constructed with.    *)
(***************************************************************************)

NoKeys == [x \in {} |-> PyNone]

\* tree.tests() was not called.
NoQuery == [names |-> PyNone, filters |-> PyNone]

\* url and ref, under their names or under the legacy names.
UrlRefParts ==
    { NoKeys,
      "url" :> PyStr(S_url),
      "ref" :> PyStr(S_ref),
      ("url" :> PyStr(S_url)) @@ ("ref" :> PyStr(S_ref)),
      ("repository" :> PyStr(S_url)) @@ ("revision" :> PyStr(S_ref)) }

HasUrl(part) == "url" \in DOMAIN part \/ "repository" \in DOMAIN part

\* path: a directory of a repository, one outside any, one that does not
\* exist; with url, a path inside the remote repository.
LocalPathParts == { NoKeys, "path" :> PyStr(D_r_s), "path" :> PyStr(D_n),
                    "path" :> PyStr(D_x) }
RemotePathParts == { NoKeys, "path" :> PyStr(D_s) }

\* The plan's tree root: the repository's root, a directory below it, or a
\* directory outside any repository.
Roots == {D_r, D_r_s, D_n}

\* test: a bare string or a list in the configuration, a tuple from the
\* command line (click's multiple=True).
TestParts == { NoKeys, "test" :> PyStr(S_foo), "test" :> PyList(<<<<"/", "a">>>>) }
OptTests  == { PyTuple(<<>>), PyTuple(<<<<"c">>>>) }

FilterParts == { NoKeys, "filter" :> PyStr(S_tier1) }
OptFilters  == { PyTuple(<<>>), PyTuple(<<S_tier1>>) }

ReferenceParts == { NoKeys, "reference_url" :> PyStr(S_refurl) }

\* The command line: --test, --filter, --only-modified and --dry given or
\* not, no other option given.
CommandLine(test, filter, only_modified, dry) ==
    [url |-> PyNone, ref |-> PyNone, reference_url |-> PyNone,
     reference_ref |-> PyNone, path |-> PyNone, test |-> test,
     filter |-> filter, only_modified |-> PyBool(only_modified),
     dry |-> PyBool(dry)]

\* The plugin as constructed: every configuration with every command line.
\* With --only-modified, where the lists of changed files multiply the
\* runs, the configurations are those that differ in what the diff and the
\* selection use (url, test, filter, reference_url, --test, --dry): they
\* have no path, no ref, no legacy key and no --filter, and the plan's tree
\* is the repository's root.
Init ==
    /\ pc = "init"
    /\ \E ur \in UrlRefParts, pp \in LocalPathParts \cup RemotePathParts,
          tp \in TestParts, fp \in FilterParts, rp \in ReferenceParts,
          ot \in OptTests, of \in OptFilters, om \in BOOLEAN, dry \in BOOLEAN,
          rt \in Roots :
          /\ pp \in (IF HasUrl(ur) THEN RemotePathParts ELSE LocalPathParts)
          /\ (HasUrl(ur) \/ pp # NoKeys) => rt = D_r
          /\ om => /\ pp = NoKeys /\ rt = D_r
                   /\ DOMAIN ur \subseteq {"url"}
                   /\ of = PyTuple(<<>>)
          /\ data = ur @@ pp @@ tp @@ fp @@ rp
          /\ opts = CommandLine(ot, of, om, dry)
          /\ root = rt
    /\ conf = data
    /\ data0 = NoKeys
    /\ path = PyNone
    /\ git_root = PyNone
    /\ ref = PyNone
    /\ tree_path = PyNone
    /\ isdir = PyNone
    /\ prefix_path = PyNone
    /\ filters = PyNone
    /\ names = PyNone
    /\ changed = <<>>
    /\ modified = {}
    /\ query = NoQuery
    /\ tests_ = PyNone
    /\ idx = 0
    /\ log = <<>>
    /\ err = ""

(***************************************************************************)
(* wake()                                                                  *)
(***************************************************************************)

\* wake(): 'repository' and 'revision' renamed to 'url' and 'ref'.
WakeLegacy(d) ==
    LET d1 == IF "repository" \in DOMAIN d
              THEN With(Without(d, "repository"), "url", d["repository"]) ELSE d
    IN  IF "revision" \in DOMAIN d1
        THEN With(Without(d1, "revision"), "ref", d1["revision"]) ELSE d1

\* A value that is not a list left as it is (mutant).
WakeListKey_Unwrapped(d, key) == d

\* wake(): a 'filter' or 'test' that is not a list becomes a list of it.
WakeListKey(d, key) ==
    IF key \in DOMAIN d /\ d[key].t # "list"
    THEN With(d, key, PyList(<<d[key].v>>)) ELSE d

WakeLists(d) == WakeListKey(WakeListKey(d, "filter"), "test")

\* wake(): the options given on the command line override the data.
WakeOptions ==
    <<"url", "ref", "reference_url", "reference_ref", "path", "test", "filter",
      "only_modified">>

RECURSIVE WakeOverride(_, _)
WakeOverride(d, options) ==
    IF options = <<>> THEN d
    ELSE LET option == Head(options)
             value  == Opt(option)
         IN  WakeOverride(IF Truthy(value) THEN With(d, option, value) ELSE d,
                          Tail(options))

Wake ==
    /\ pc = "init"
    /\ data' = WakeOverride(WakeLists(WakeLegacy(data)), WakeOptions)
    /\ data0' = data'
    /\ pc' = "woken"
    /\ UNCHANGED <<conf, opts, root, path, git_root, ref, tree_path, isdir,
                   prefix_path, filters, names, changed, modified, query, tests_,
                   idx, log, err>>

(***************************************************************************)
(* go(): what it calls.                                                    *)
(***************************************************************************)

\* An entry of the log: an external operation that succeeded, and for the
\* operations of go()'s loop the position of the test it is for (else 0).
Op(name, i) == [op |-> name, i |-> i, ok |-> TRUE]

\* An entry of the log: an external operation that failed.
Failed(name) == [op |-> name, i |-> 0, ok |-> FALSE]

\* The operations that change the file system or the repository.
Mutating == {"clone", "copy", "checkout", "remote_add", "fetch"}

\* testdir = os.path.join(self.workdir, 'tests')
Testdir == PathJoin(Workdir, S_tests)

Dry == Truthy(Opt("dry"))

\* self.run(command, dry=flag): in dry mode a command is executed only when
\* it is run with dry=True; otherwise run() returns (None, None).
Executes(flag) == ~Dry \/ flag

\* The check of the path, left out (mutant).
PathNotDirectory_Unchecked(p) == FALSE

\* go() line 137: the path given is not a directory.
PathNotDirectory(p) == Truthy(p) /\ ~IsDir(p.v)

\* The plan's tree root used when the lookup fails (mutant).
GitRootOf_PlanRoot(fmf_root) ==
    LET output == GitToplevel(fmf_root)
    IN  IF output.t = "none" THEN root ELSE Strip(output.v, "\n")

\* go() lines 142-148: the repository root of fmf_root, fmf_root itself
\* when the lookup fails.
GitRootOf(fmf_root) ==
    LET output == GitToplevel(fmf_root)
    IN  IF output.t = "none" THEN fmf_root ELSE Strip(output.v, "\n")

\* go() lines 143-147: the lookup of the repository root, which succeeds,
\* or fails with RunError, which go() catches.
RevParse(fmf_root) ==
    IF GitToplevel(fmf_root).t = "none"
    THEN Failed("rev-parse") ELSE Op("rev-parse", 0)

\* The copy made in a dry run too (mutant).
CopyRuns_Always == TRUE

\* go() line 153: the copy is made unless the run is a dry one.
CopyRuns == ~Dry

\* The path '.' left as it is (mutant).
AdjustPath_KeepsDot(p) == IF p.t = "none" THEN PyStr(<<>>) ELSE p

\* go() lines 164-165: None and '.' become the empty path.
AdjustPath(p) ==
    IF p.t = "none" \/ (p.t = "str" /\ p.v = S_dot) THEN PyStr(<<>>) ELSE p

\* go() line 170
TreePath(p) == PathJoin(Testdir, LStrip(p, "/"))

\* go() line 174
PrefixPath(p) == PathJoin(S_slash_tests, LStrip(p, "/"))

\* What os.path.isdir(tree_path) may answer: in a copy of the local tree
\* that nothing was checked out in, the metadata root is there; a clone or a
\* checked out revision may hold it or not; a dry run makes no directory,
\* and the workdir may hold the tests directory of an earlier run or not.
TreePathIsDir ==
    IF Dry THEN BOOLEAN
    ELSE IF \E k \in 1..Len(log) : log[k].op \in {"clone", "checkout"} THEN BOOLEAN
    ELSE {TRUE}

\* The check of the tree's path, left out (mutant).
TreeNotFound_Unchecked(found) == FALSE

\* go() line 171: the tree's path is not a directory, and the run is not a
\* dry one.
TreeNotFound(found) == ~found /\ ~Dry

\* The files a `git log --name-only` may list, and what it may list of
\* them: at most MaxChanged lines, in any order and with a file listed
\* again (git lists the files commit by commit, the newest commit first).
MaxChanged == 3

ChangedUniverse ==
    { <<"a", "/", "b", "/", "x">>, <<"a", "/", "b", "/", "y">>,
      <<"c", "/", "z">>, <<"x">>, <<"d", ".", "e", "/", "f">> }

ChangedLists ==
    UNION { [1..n -> ChangedUniverse] : n \in 0..MaxChanged }

\* The output of git log for a list of changed files: a line for each.
RECURSIVE LogOutput(_)
LogOutput(files) ==
    IF files = <<>> THEN <<>>
    ELSE Head(files) \o <<"\n">> \o LogOutput(Tail(files))

Range(seq) == { seq[k] : k \in 1..Len(seq) }

\* The patterns of the first components of the changed directories only
\* (mutant).
ModifiedSet_TopLevel(output) ==
    { <<"^", "/">> \o ReEscape(Split(name, "/")[1]) \o <<"$">> :
        name \in { Dirname(line) : line \in Range(Split(output, "\n")) } \ {<<>>} }

\* The empty names kept (mutant).
ModifiedSet_KeepsEmpty(output) ==
    { <<"^", "/">> \o ReEscape(name) \o <<"$">> :
        name \in { Dirname(line) : line \in Range(Split(output, "\n")) } }

\* go() lines 198-200: the set of the patterns of the changed directories.
ModifiedSet(output) ==
    { <<"^", "/">> \o ReEscape(name) \o <<"$">> :
        name \in { Dirname(line) : line \in Range(Split(output, "\n")) } \ {<<>>} }

\* The orders a set may be iterated in.
Orders(S) ==
    { f \in [1..Cardinality(S) -> S] : \A i, j \in 1..Cardinality(S) : f[i] = f[j] => i = j }

\* The names left as they are (mutant).
Extend_Nothing(nms, order) == nms

\* go() line 202: names.extend(modified), with the set iterated in `order`.
Extend(nms, order) == PyList(nms.v \o order)

(***************************************************************************)
(* The metadata tree and the dependency hook, which go() calls.            *)
(***************************************************************************)

\* The tests of the metadata tree: name, path, require, recommend, and the
\* filters the test satisfies.
TreeTests ==
    << [name |-> <<"/", "a", "/", "b">>, path |-> <<"/", "a", "/", "b">>,
        require |-> <<"library(a/b)">>, recommend |-> <<>>, attrs |-> {S_tier1}],
       [name |-> <<"/", "c">>, path |-> <<"/", "c">>,
        require |-> <<>>, recommend |-> <<"pkg">>, attrs |-> {S_tier1}],
       [name |-> <<"/", "d", "x", "e">>, path |-> <<"/", "d", "x", "e">>,
        require |-> <<>>, recommend |-> <<>>, attrs |-> {S_tier1}],
       [name |-> <<"/", "f", "o", "o">>, path |-> <<"/">>,
        require |-> <<>>, recommend |-> <<>>, attrs |-> {}] >>

\* tmt.Tree.tests(filters, names): a test is selected if no names are given
\* or its name matches one of them, and it satisfies every filter.
Selected(t, nms, flts) ==
    /\ nms = <<>> \/ \E k \in 1..Len(nms) : ReSearch(nms[k], t.name)
    /\ \A k \in 1..Len(flts) : flts[k] \in t.attrs

RECURSIVE Select(_, _, _)
Select(tree, nms, flts) ==
    IF tree = <<>> THEN <<>>
    ELSE (IF Selected(Head(tree), nms, flts) THEN <<Head(tree)>> ELSE <<>>)
         \o Select(Tail(tree), nms, flts)

\* tmt.beakerlib.dependencies(require, recommend): library references are
\* replaced by what the library needs; the third value is the libraries.
Resolve(items) ==
    [k \in 1..Len(items) |-> IF items[k] = "library(a/b)" THEN "a-b-libs" ELSE items[k]]

Dependencies(require, recommend) == <<Resolve(require), Resolve(recommend), <<>> >>

\* The prefix put before a path that has it already (mutant).
RewritePath_Twice(prefix, p) ==
    PathJoin(prefix, LStrip(PathJoin(prefix, LStrip(p, "/")), "/"))

\* go() line 215
RewritePath(prefix, p) == PathJoin(prefix, LStrip(p, "/"))

\* The hook called for the tests that require something only (mutant).
NeedsHook_RequireOnly(t) == t.require # <<>>

\* go() line 217
NeedsHook(t) == t.require # <<>> \/ t.recommend # <<>>

\* The hook called before the path is rewritten (mutant).
LoopOps_HookFirst(i, hook) ==
    (IF hook THEN <<Op("hook", i)>> ELSE <<>>) \o <<Op("rewrite", i)>>

\* go() lines 215-219: what one pass of the loop does for the test at
\* position i, in order: the rewrite of the path, then the hook if needed.
LoopOps(i, hook) ==
    <<Op("rewrite", i)>> \o (IF hook THEN <<Op("hook", i)>> ELSE <<>>)

(***************************************************************************)
(* go(), step by step.                                                     *)
(***************************************************************************)

\* The exceptions go() raises itself (lines 138 and 172), and those of
\* calling split() on None (line 199) and extend() on a tuple (line 202).
ErrPath == "DiscoverError: path is not a directory"
ErrTree == "DiscoverError: metadata tree path not found"
ErrSplit == "AttributeError: 'NoneType' object has no attribute 'split'"
ErrExtend == "AttributeError: 'tuple' object has no attribute 'extend'"
ErrRelpath == "ValueError: no path specified"

\* An exception leaves go().
Raise(e) == pc' = "error" /\ err' = e

\* go() goes on to the next step.
Goto(step) == pc' = step /\ err' = err

\* self.run(): the command is started; it succeeds and go() goes on to
\* `step`, or it fails and run() raises RunError.
RunThen(command, step) ==
    \E ok \in BOOLEAN :
        IF ok THEN log' = Append(log, Op(command, 0)) /\ Goto(step)
        ELSE log' = Append(log, Failed(command)) /\ Raise("RunError: " \o command)

\* self.run() in a dry run, for a command not run with dry=True: the
\* command is not executed and there is no output, (None, None).
SkippedOutput == PyNone

\* go() lines 126-154: clone the repository, or copy the local one.
Acquire ==
    /\ pc = "woken"
    /\ LET url == Get(data, "url", PyNone)
           p   == Get(data, "path", PyNone)
       IN  IF Truthy(url)
           THEN /\ path' = p
                /\ git_root' = git_root
                /\ IF Executes(FALSE) THEN RunThen("clone", "acquired")
                   ELSE log' = log /\ Goto("acquired")
           ELSE IF PathNotDirectory(p)
           THEN /\ path' = p
                /\ git_root' = git_root
                /\ log' = log
                /\ Raise(ErrPath)
           ELSE LET fmf_root == PyOr(p, PyStr(root)).v
                    groot    == GitRootOf(fmf_root)
                    revparse == RevParse(fmf_root)
                    rel      == Relpath(fmf_root, groot, Cwd)
                IN  IF rel = NoPathSpecified
                    THEN /\ path' = p
                         /\ git_root' = PyStr(groot)
                         /\ log' = Append(log, revparse)
                         /\ Raise(ErrRelpath)
                    ELSE
                    /\ path' = PyStr(rel)
                    /\ git_root' = PyStr(groot)
                    /\ IF CopyRuns
                       THEN \E ok \in BOOLEAN :
                               IF ok
                               THEN /\ log' = log \o <<revparse, Op("copy", 0)>>
                                    /\ Goto("acquired")
                               ELSE /\ log' = log \o <<revparse, Failed("copy")>>
                                    /\ Raise("Error: copytree")
                       ELSE /\ log' = Append(log, revparse)
                            /\ Goto("acquired")
    /\ UNCHANGED <<conf, data, data0, opts, root, ref, tree_path, isdir, prefix_path,
                   filters, names, changed, modified, query, tests_, idx>>

\* A failure of the checkout ignored (mutant).
Checkout_FailureIgnored ==
    /\ pc = "acquired"
    /\ ref' = Get(data, "ref", PyNone)
    /\ IF Truthy(ref') /\ Executes(FALSE)
       THEN \E ok \in BOOLEAN :
               /\ log' = Append(log, IF ok THEN Op("checkout", 0) ELSE Failed("checkout"))
               /\ Goto("checked_out")
       ELSE log' = log /\ Goto("checked_out")
    /\ UNCHANGED <<conf, data, data0, opts, root, path, git_root, tree_path, isdir,
                   prefix_path, filters, names, changed, modified, query, tests_, idx>>

\* go() lines 156-161: check the revision out.
Checkout ==
    /\ pc = "acquired"
    /\ ref' = Get(data, "ref", PyNone)
    /\ IF Truthy(ref') /\ Executes(FALSE)
       THEN RunThen("checkout", "checked_out")
       ELSE log' = log /\ Goto("checked_out")
    /\ UNCHANGED <<conf, data, data0, opts, root, path, git_root, tree_path, isdir,
                   prefix_path, filters, names, changed, modified, query, tests_, idx>>

\* go() lines 163-182: the tree's path, the prefix, the filters and names.
Prepare ==
    /\ pc = "checked_out"
    /\ path' = AdjustPath(path)
    /\ tree_path' = PyStr(TreePath(path'.v))
    /\ isdir' \in { PyBool(b) : b \in TreePathIsDir }
    /\    IF TreeNotFound(isdir'.v)
          THEN /\ Raise(ErrTree)
               /\ UNCHANGED <<prefix_path, filters, names>>
          ELSE /\ prefix_path' = PyStr(PrefixPath(path'.v))
               /\ filters' = Get(data, "filter", PyList(<<>>))
               /\ names' = Get(data, "test", PyList(<<>>))
               /\ Goto("prepared")
    /\ UNCHANGED <<conf, data, data0, opts, root, git_root, ref, changed, modified, query,
                   tests_, idx, log>>

\* A failure of the fetch ignored (mutant).
Reference_FetchFailureIgnored ==
    /\ pc = "prepared"
    /\ IF Truthy(Get(data, "reference_url", PyNone)) /\ Executes(FALSE)
       THEN \E outcome \in {"remote_add fails", "fetch fails", "fetched"} :
               IF outcome = "remote_add fails"
               THEN /\ log' = Append(log, Failed("remote_add"))
                    /\ Raise("RunError: remote_add")
               ELSE IF outcome = "fetch fails"
               THEN /\ log' = log \o <<Op("remote_add", 0), Failed("fetch")>>
                    /\ Goto("referenced")
               ELSE /\ log' = log \o <<Op("remote_add", 0), Op("fetch", 0)>>
                    /\ Goto("referenced")
       ELSE log' = log /\ Goto("referenced")
    /\ UNCHANGED <<conf, data, data0, opts, root, path, git_root, ref, tree_path, isdir,
                   prefix_path, filters, names, changed, modified, query, tests_, idx>>

\* go() lines 184-191: add the reference remote and fetch it.
Reference ==
    /\ pc = "prepared"
    /\ IF Truthy(Get(data, "reference_url", PyNone)) /\ Executes(FALSE)
       THEN \E outcome \in {"remote_add fails", "fetch fails", "fetched"} :
               IF outcome = "remote_add fails"
               THEN /\ log' = Append(log, Failed("remote_add"))
                    /\ Raise("RunError: remote_add")
               ELSE IF outcome = "fetch fails"
               THEN /\ log' = log \o <<Op("remote_add", 0), Failed("fetch")>>
                    /\ Raise("RunError: fetch")
               ELSE /\ log' = log \o <<Op("remote_add", 0), Op("fetch", 0)>>
                    /\ Goto("referenced")
       ELSE log' = log /\ Goto("referenced")
    /\ UNCHANGED <<conf, data, data0, opts, root, path, git_root, ref, tree_path, isdir,
                   prefix_path, filters, names, changed, modified, query, tests_, idx>>

\* go() lines 198-202: the output of git log, which listed `files`, is
\* split into the modified directories, and these are added to the names.
UseOutput(output, files) ==
    IF output.t # "str"
    THEN /\ Raise(ErrSplit)
         /\ UNCHANGED <<data, names, changed, modified>>
    ELSE /\ changed' = files
         /\ modified' = ModifiedSet(output.v)
         /\ IF names.t # "list"
            THEN /\ Raise(ErrExtend)
                 /\ UNCHANGED <<data, names>>
            ELSE \E order \in Orders(modified') :
                    /\ names' = Extend(names, order)
                    /\ data' = IF "test" \in DOMAIN data
                               THEN With(data, "test", names') ELSE data
                    /\ Goto("diffed")

\* go() lines 192-202: the modified directories, added to the names.
Diff ==
    /\ pc = "referenced"
    /\ IF ~Truthy(Get(data, "only_modified", PyNone))
       THEN /\ log' = log
            /\ Goto("diffed")
            /\ UNCHANGED <<data, names, changed, modified>>
       ELSE IF ~Executes(FALSE)
       THEN /\ log' = log
            /\ UseOutput(SkippedOutput, <<>>)
       ELSE \E ok \in BOOLEAN :
               IF ~ok
               THEN /\ log' = Append(log, Failed("log"))
                    /\ Raise("RunError: log")
                    /\ UNCHANGED <<data, names, changed, modified>>
               ELSE \E files \in ChangedLists :
                       /\ log' = Append(log, Op("log", 0))
                       /\ UseOutput(PyStr(LogOutput(files)), files)
    /\ UNCHANGED <<conf, data0, opts, root, path, git_root, ref, tree_path, isdir,
                   prefix_path, filters, query, tests_, idx>>

\* go() lines 204-210: nothing in a dry run, else the tests of the tree.
Discover ==
    /\ pc = "diffed"
    /\ IF Dry
       THEN /\ tests_' = PyList(<<>>)
            /\ Goto("done")
            /\ UNCHANGED <<query, idx, log>>
       ELSE /\ query' = [names |-> names, filters |-> filters]
            /\ tests_' = PyList(Select(TreeTests, names.v, filters.v))
            /\ log' = Append(log, Op("query", 0))
            /\ idx' = 1
            /\ Goto(IF tests_'.v = <<>> THEN "done" ELSE "loop")
    /\ UNCHANGED <<conf, data, data0, opts, root, path, git_root, ref, tree_path, isdir,
                   prefix_path, filters, names, changed, modified>>

\* go() lines 213-219: one pass of the loop, for the test at idx.
LoopTest ==
    /\ pc = "loop"
    /\ LET t    == tests_.v[idx]
           t1   == [t EXCEPT !.path = RewritePath(prefix_path.v, t.path)]
           deps == Dependencies(t1.require, t1.recommend)
           t2   == IF NeedsHook(t1)
                   THEN [t1 EXCEPT !.require = deps[1], !.recommend = deps[2]]
                   ELSE t1
       IN  /\ tests_' = PyList([tests_.v EXCEPT ![idx] = t2])
           /\ log' = log \o LoopOps(idx, NeedsHook(t1))
    /\ idx' = idx + 1
    /\ Goto(IF idx = Len(tests_.v) THEN "done" ELSE "loop")
    /\ UNCHANGED <<conf, data, data0, opts, root, path, git_root, ref, tree_path, isdir,
                   prefix_path, filters, names, changed, modified, query>>

\* tests(): self._tests
Tests == tests_

Next ==
    \/ Wake
    \/ Acquire
    \/ Checkout
    \/ Prepare
    \/ Reference
    \/ Diff
    \/ Discover
    \/ LoopTest

Spec == Init /\ [][Next]_vars

(***************************************************************************)
(* Properties.                                                             *)
(***************************************************************************)

\* go() has run its first step.
Started == pc \notin {"init", "woken"}

\* go() has returned or raised.
Ended == pc \in {"done", "error"}

ConfUrl  == Get(data0, "url", PyNone)
ConfPath == Get(data0, "path", PyNone)
ConfRef  == Get(data0, "ref", PyNone)
OnlyModified == Truthy(Get(data0, "only_modified", PyNone))

\* The operations of the log, in order.
Ops == [k \in 1..Len(log) |-> log[k].op]

\* An operation of the set S was started.
Did(S) == \E k \in 1..Len(log) : log[k].op \in S

\* A path is configured and no directory of the file system has it.
PathIsNoDirectory == ConfPath.t = "str" /\ ConfPath.v # <<>> /\ ConfPath.v \notin Dirs

\* C1 (the claim as made): whenever the configured path is not an existing
\* directory, with url set or not, go() fails with the configuration error
\* and has started no mutating operation.
C1_Original ==
    (Started /\ PathIsNoDirectory)
        => (pc = "error" /\ err = ErrPath /\ ~Did(Mutating))

\* C1 (amended): when url is not set and the configured path is not an
\* existing directory, go() fails with the configuration error "path is not
\* a directory" in its first step, dry run or not, before any operation
\* (clone, copy, checkout, remote-add, fetch or any other) is started.
C1_PathNotDirectory ==
    (Started /\ ~Truthy(ConfUrl) /\ PathIsNoDirectory)
        => (pc = "error" /\ err = ErrPath /\ log = <<>>)

C1_Witness ==
    /\ pc = "error" /\ err = ErrPath /\ log = <<>>
    /\ ~Truthy(ConfUrl) /\ ConfPath.v = D_x /\ ~Dry

\* C2: in a dry run go() never calls the metadata tree query, the path
\* rewrite or the dependency hook, starts no clone, copy, checkout,
\* remote-add or fetch, and self._tests is never a list with tests in it:
\* it is the empty list once go() has returned.
C2_DryRunDoesNothing ==
    Dry => /\ ~Did(Mutating \cup {"query", "rewrite", "hook"})
           /\ query = NoQuery
           /\ Tests.t = "none" \/ Tests.v = <<>>
           /\ pc = "done" => Tests = PyList(<<>>)

C2_Witness ==
    /\ Dry /\ pc = "done" /\ Tests = PyList(<<>>)
    /\ ~Truthy(ConfUrl) /\ Truthy(ConfRef) /\ Truthy(Get(data0, "reference_url", PyNone))
    /\ Truthy(Get(data0, "test", PyNone))
    /\ Ops = <<"rev-parse">>

\* C3 (the claim as made): a dry run of go() never ends in an error; it ends
\* by returning the empty list of tests.  Stated for the configurations
\* whose path, if one is given, is a directory: with no url and a path that
\* is none, C1_PathNotDirectory has the error a dry run ends with.
C3_DryRunNeverFails ==
    (Dry /\ Ended /\ ~PathIsNoDirectory) => (pc = "done" /\ Tests = PyList(<<>>))

\* git log ran and listed the changed files.
DiffDone == \E k \in 1..Len(log) : log[k].op = "log" /\ log[k].ok

\* The directory of a changed file: its components but the last.
DirOf(f) ==
    LET comps == Split(f, "/") IN JoinWith(SubSeq(comps, 1, Len(comps) - 1), "/")

\* The top-level directory of a changed file, empty for a file of the root.
TopDirOf(f) ==
    LET comps == Split(f, "/") IN IF Len(comps) > 1 THEN comps[1] ELSE <<>>

\* The anchored pattern of a directory.
Anchored(dir) == <<"^", "/">> \o ReEscape(dir) \o <<"$">>

\* The changed files of the claim's example, and the patterns of its top-level
\* directories and of its directories.
ExampleChanged ==
    << <<"a", "/", "b", "/", "x">>, <<"a", "/", "b", "/", "y">>, <<"c", "/", "z">> >>
ExampleTopLevel == { <<"^", "/", "a", "$">>, <<"^", "/", "c", "$">> }
ExampleDirectories == { <<"^", "/", "a", "/", "b", "$">>, <<"^", "/", "c", "$">> }

\* C4 (the claim as made): the modified set holds one anchored pattern for
\* each distinct top-level directory of the changed files; for a/b/x, a/b/y,
\* c/z it is {^/a$, ^/c$}.
C4_Original ==
    DiffDone =>
        /\ modified = { Anchored(TopDirOf(f)) : f \in Range(changed) } \ {Anchored(<<>>)}
        /\ changed = ExampleChanged => modified = ExampleTopLevel

\* C4 (amended): the modified set holds exactly one anchored pattern
\* ^/<dir>$ for each distinct directory of the changed files, the whole
\* directory path of the file (regex-escaped), not its first component;
\* files of the root give none.  For a/b/x, a/b/y, c/z it is {^/a/b$, ^/c$}.
C4_Directories ==
    DiffDone =>
        /\ modified = { Anchored(DirOf(f)) : f \in Range(changed) } \ {Anchored(<<>>)}
        /\ changed = ExampleChanged => modified = ExampleDirectories

C4_Witness ==
    DiffDone /\ changed = ExampleChanged /\ modified = ExampleDirectories

\* The names of the tests in self._tests.
TestNames == { Tests.v[i].name : i \in 1..Len(Tests.v) }

ConfTest   == Get(data0, "test", PyList(<<>>))
ConfFilter == Get(data0, "filter", PyList(<<>>))

\* C5: with only_modified set, the names tree.tests() is called with are
\* those of the configured `test` and the patterns of the modified set, no
\* others, and the filters are the configured ones; the tests returned are
\* the tests of the tree that match one of these names (any test, if there
\* are no names) and every filter: with test ["foo"] and the modified set
\* {^/c$}, the test /c is returned though its name does not match foo.
C5_NamesAreUnion ==
    (OnlyModified /\ query # NoQuery) =>
        /\ Range(query.names.v) = Range(ConfTest.v) \cup modified
        /\ query.filters = ConfFilter
        /\ \A k \in 1..Len(TreeTests) :
              LET t == TreeTests[k]
              IN  t.name \in TestNames <=>
                     /\ query.names.v = <<>>
                        \/ \E n \in Range(ConfTest.v) \cup modified : ReSearch(n, t.name)
                     /\ \A f \in Range(ConfFilter.v) : f \in t.attrs
        /\ (ConfTest.v = <<S_foo>> /\ modified = {<<"^", "/", "c", "$">>}
            /\ ConfFilter.v = <<>>)
               => TestNames = {<<"/", "c">>, <<"/", "f", "o", "o">>}

C5_Witness ==
    /\ OnlyModified /\ query # NoQuery /\ pc = "done"
    /\ ConfTest.v = <<S_foo>> /\ modified = {<<"^", "/", "c", "$">>}
    /\ ConfFilter.v = <<>>
    /\ TestNames = {<<"/", "c">>, <<"/", "f", "o", "o">>}

\* The sequence p starts the sequence s.
IsPrefix(p, s) == Len(p) <= Len(s) /\ SubSeq(s, 1, Len(p)) = p

\* The test lies in or under a directory a changed file is in.
UnderModified(t) ==
    \E f \in Range(changed) :
        /\ DirOf(f) # <<>>
        /\ t.name = <<"/">> \o DirOf(f) \/ IsPrefix(<<"/">> \o DirOf(f) \o <<"/">>, t.name)

\* C6 (the claim as made): with only_modified set, every test go() returns
\* matches a configured `test` pattern or lies under a modified directory;
\* with an empty diff and no `test`, no test is returned.
C6_OnlyModifiedTests ==
    (OnlyModified /\ Tests.t = "list") =>
        \A i \in 1..Len(Tests.v) :
            \/ \E n \in Range(ConfTest.v) : ReSearch(n, Tests.v[i].name)
            \/ UnderModified(Tests.v[i])

\* go() has computed the prefix.
Prepared == prefix_path.t = "str"

\* The directory is a repository or inside one.
InRepo(dir) == \E r \in GitRepos : dir = r \/ IsPrefix(r \o <<"/">>, dir)

\* The metadata root of a run with no url: the path if given, else the
\* plan's tree root.
FmfRoot == IF Truthy(ConfPath) THEN ConfPath.v ELSE root

S_tests_slash == <<"/", "t", "e", "s", "t", "s", "/">>

\* C7 (the claim as made): with no url, no path and the plan's tree root a
\* repository root, the path is empty and the prefix is "/tests", with no
\* trailing separator.
C7_Original ==
    (Prepared /\ ~Truthy(ConfUrl) /\ ~Truthy(ConfPath) /\ root \in GitRepos)
        => (path.v = <<>> /\ prefix_path.v = S_slash_tests)

\* C7 (amended): the prefix is "/tests/" followed by the path with its
\* leading slashes stripped, and a path of None or "." is the empty path:
\* with no url, no path and the plan's tree root a repository root, the path
\* is empty and the prefix is "/tests/", the separator kept.
C7_Prefix ==
    Prepared =>
        /\ path.t = "str" /\ path.v # S_dot
        /\ prefix_path.v = S_tests_slash \o LStrip(path.v, "/")
        /\ (~Truthy(ConfUrl) /\ ~Truthy(ConfPath) /\ root \in GitRepos)
              => (path.v = <<>> /\ prefix_path.v = S_tests_slash)

C7_Witness ==
    /\ Prepared /\ ~Truthy(ConfUrl) /\ ~Truthy(ConfPath) /\ root \in GitRepos
    /\ path.v = <<>> /\ prefix_path.v = S_tests_slash /\ pc = "done" /\ ~Dry

\* C8: with no url and a metadata root that is in no repository, the failed
\* lookup is no error: the metadata root is the root that is copied (in a
\* run that is not a dry one the copy into the tests directory is started
\* right after the lookup), and the relative path is "." and then empty, the
\* prefix "/tests/" and the tree path the tests directory, also when the
\* metadata root was given as `path`.
C8_Fallback ==
    (Started /\ ~Truthy(ConfUrl) /\ FmfRoot \in Dirs /\ ~InRepo(FmfRoot)) =>
        /\ err # ErrPath
        /\ git_root = PyStr(FmfRoot)
        /\ Len(log) >= 1 /\ log[1] = Failed("rev-parse")
        /\ ~Dry => (Len(log) >= 2 /\ log[2].op = "copy")
        /\ (pc = "error" /\ Len(log) = 2) => ~log[2].ok
        /\ path.v = (IF pc \in {"acquired", "checked_out"} \/ tree_path.t = "none"
                     THEN S_dot ELSE <<>>)
        /\ Prepared => (prefix_path.v = S_tests_slash
                        /\ tree_path.v = Testdir \o <<"/">>)

C8_Witness ==
    /\ pc = "done" /\ ~Dry /\ ~Truthy(ConfUrl) /\ ConfPath = PyStr(D_n)
    /\ git_root = PyStr(D_n) /\ path.v = <<>>
    /\ log[1] = Failed("rev-parse") /\ log[2] = Op("copy", 0)

\* The path a test of the tree has, by the test's name.
TreePathOf(name) ==
    TreeTests[CHOOSE k \in 1..Len(TreeTests) : TreeTests[k].name = name].path

\* The number of times the path of the test at position i was rewritten.
Rewrites(i) == Cardinality({ k \in 1..Len(log) : log[k].op = "rewrite" /\ log[k].i = i })

\* C9 (the claim as made): every test returned has the path
\* normalize(prefix + "/" + its path without the leading slashes).
C9_Original ==
    (pc = "done" /\ Tests.t = "list") =>
        \A i \in 1..Len(Tests.v) :
            Tests.v[i].path = Normpath(prefix_path.v \o <<"/">>
                                       \o LStrip(TreePathOf(Tests.v[i].name), "/"))

\* C9 (amended): every test returned by a run that is not a dry one has had
\* its path rewritten exactly once, to the prefix, a separator unless the
\* prefix ends with one, and the path without its leading slashes: the
\* result of os.path.join, which is not normalized.  A test the loop has not
\* reached has the path of the tree.
C9_RewrittenOnce ==
    (pc \in {"loop", "done"} /\ Tests.t = "list") =>
        \A i \in 1..Len(Tests.v) :
            LET orig  == TreePathOf(Tests.v[i].name)
                sep   == IF prefix_path.v[Len(prefix_path.v)] = "/" THEN <<>> ELSE <<"/">>
            IN  IF i < idx
                THEN /\ Tests.v[i].path = prefix_path.v \o sep \o LStrip(orig, "/")
                     /\ Rewrites(i) = 1
                ELSE /\ Tests.v[i].path = orig
                     /\ Rewrites(i) = 0

C9_Witness ==
    /\ pc = "done" /\ Tests.t = "list" /\ Len(Tests.v) = Len(TreeTests)
    /\ prefix_path.v = S_tests_slash \o <<"s">>
    /\ Tests.v[1].path = S_tests_slash \o <<"s", "/", "a", "/", "b">>
    /\ Tests.v[4].path = S_tests_slash \o <<"s", "/">>
    /\ \A i \in 1..Len(Tests.v) : Rewrites(i) = 1

\* The operations that change the file system or the repository, and the
\* diff query.
Fallible == Mutating \cup {"log"}

\* C10: in a run that is not a dry one, when the clone, the copy, the
\* checkout, the remote-add, the fetch or the diff query fails, go() ends in
\* an error at once: the failed operation is the last one started, no
\* query, rewrite or hook is executed, and self._tests is never assigned.
C10_FailureIsFatal ==
    \A k \in 1..Len(log) :
        (~Dry /\ log[k].op \in Fallible /\ ~log[k].ok) =>
            /\ pc = "error"
            /\ err \in {"RunError: " \o log[k].op, "Error: copytree"}
            /\ k = Len(log)
            /\ ~Did({"query", "rewrite", "hook"})
            /\ query = NoQuery
            /\ Tests = PyNone

C10_Witness ==
    /\ ~Dry /\ pc = "error" /\ err = "RunError: fetch"
    /\ Ops = <<"clone", "checkout", "remote_add", "fetch">>
    /\ ~log[4].ok /\ Tests = PyNone /\ OnlyModified

\* The test of the tree that has the name.
TreeTestOf(name) ==
    TreeTests[CHOOSE k \in 1..Len(TreeTests) : TreeTests[k].name = name]

\* The calls of the dependency hook, in the order they were made.
HookCalls == SelectSeq(log, LAMBDA e : e.op = "hook")

\* The number of times the hook was called for the test at position i.
Hooks(i) == Cardinality({ k \in 1..Len(log) : log[k].op = "hook" /\ log[k].i = i })

\* C11: in a run that is not a dry one, the dependency hook is called
\* exactly once for every selected test whose require or recommend is not
\* empty and never for a test where both are empty, the calls are made in
\* the order of the selection, and the test's require and recommend are
\* overwritten with the first two values of the hook's result.  A test the
\* loop has not reached has had no call.
C11_HookOncePerQualifying ==
    (~Dry /\ pc \in {"loop", "done"} /\ Tests.t = "list") =>
        /\ \A i \in 1..Len(Tests.v) :
              LET orig      == TreeTestOf(Tests.v[i].name)
                  qualifies == orig.require # <<>> \/ orig.recommend # <<>>
                  result    == Dependencies(orig.require, orig.recommend)
              IN  IF i < idx /\ qualifies
                  THEN /\ Hooks(i) = 1
                       /\ Tests.v[i].require = result[1]
                       /\ Tests.v[i].recommend = result[2]
                  ELSE /\ Hooks(i) = 0
                       /\ Tests.v[i].require = orig.require
                       /\ Tests.v[i].recommend = orig.recommend
        /\ \A a, b \in 1..Len(HookCalls) : a < b => HookCalls[a].i < HookCalls[b].i

C11_Witness ==
    /\ ~Dry /\ pc = "done" /\ Tests.t = "list" /\ Len(Tests.v) = Len(TreeTests)
    /\ Hooks(1) = 1 /\ Hooks(2) = 1 /\ Hooks(3) = 0 /\ Hooks(4) = 0
    /\ Tests.v[1].require = <<"a-b-libs">>
    /\ Tests.v[2].recommend = <<"pkg">>
    /\ Tests.v[3].require = <<>> /\ Tests.v[3].recommend = <<>>

\* The revision in effect: the configured ref, else 'master' when url is
\* set, else none.
RevisionInEffect ==
    IF "ref" \in DOMAIN data0 THEN data0["ref"]
    ELSE IF "url" \in DOMAIN data0 /\ data0["url"].t = "str" /\ data0["url"].v # <<>>
    THEN PyStr(<<"m", "a", "s", "t", "e", "r">>)
    ELSE PyNone

\* go() has got past its checkout step (lines 156-161).
PastCheckout ==
    \/ pc \in {"checked_out", "prepared", "referenced", "diffed", "loop", "done"}
    \/ pc = "error" /\ err \notin {ErrPath, "RunError: clone", "Error: copytree"}

\* The checkout, where it is in the log, comes right after the clone or the
\* copy, which succeeded, and every operation of the diff and of the
\* selection comes after it; before the checkout step neither the check of
\* the tree's path nor any of these operations has happened.
CheckoutInOrder ==
    /\ \A k \in 1..Len(log) :
          log[k].op = "checkout" =>
              /\ k > 1 /\ log[k - 1].op \in {"clone", "copy"} /\ log[k - 1].ok
              /\ \A j \in 1..Len(log) :
                    log[j].op \in {"remote_add", "fetch", "log", "query", "rewrite", "hook"}
                        => k < j
    /\ ~PastCheckout =>
          /\ isdir = PyNone
          /\ ~Did({"checkout", "remote_add", "fetch", "log", "query", "rewrite", "hook"})

\* C12 (the claim as made): in every run that gets to the checkout step, a
\* checkout of ref is executed if and only if a revision is in effect,
\* after the clone or copy and before the tree check, the diff and the
\* selection; with url and no ref the revision is 'master', with neither no
\* checkout is executed.
C12_Original ==
    /\ CheckoutInOrder
    /\ PastCheckout =>
          /\ ref = RevisionInEffect
          /\ Did({"checkout"}) <=> Truthy(RevisionInEffect)

\* C12 (amended): the same of every run that is not a dry one; a dry run
\* executes no checkout, whatever the revision in effect.
C12_Checkout ==
    /\ CheckoutInOrder
    /\ PastCheckout =>
          /\ ref = RevisionInEffect
          /\ Did({"checkout"}) <=> (~Dry /\ Truthy(RevisionInEffect))

C12_Witness ==
    /\ ~Dry /\ pc = "done"
    /\ "url" \in DOMAIN data0 /\ "ref" \notin DOMAIN data0
    /\ ref = PyStr(S_master)
    /\ Len(log) > 2 /\ log[1] = Op("clone", 0) /\ log[2] = Op("checkout", 0)
    /\ Did({"query"})

\* C13 (the claim as made): in a run with only_modified unset none of the
\* remote-add, the fetch and the diff query is executed, whether
\* reference_url is configured or not.
C13_OnlyWhenRequested ==
    ~OnlyModified => ~Did({"remote_add", "fetch", "log"})

\* C14: in a run that is not a dry one, when the tree's path (the tests
\* directory joined with the relative path) is no directory after the
\* acquisition and the checkout, go() fails with the discovery error of the
\* tree not found; the query of the tree, the rewrite and the hook are not
\* executed and self._tests is not assigned.
C14_TreeNotFound ==
    (~Dry /\ isdir = PyBool(FALSE)) =>
        /\ pc = "error" /\ err = ErrTree
        /\ ~Did({"remote_add", "fetch", "log", "query", "rewrite", "hook"})
        /\ query = NoQuery
        /\ Tests = PyNone

C14_Witness ==
    /\ ~Dry /\ isdir = PyBool(FALSE) /\ pc = "error" /\ err = ErrTree
    /\ Ops = <<"clone", "checkout">>
    /\ tree_path = PyStr(Testdir \o <<"/", "s">>)

\* C15 (the claim as made): no call of the dependency hook, for any test,
\* precedes the rewrite of the path of any selected test.
C15_Original ==
    \A k, j \in 1..Len(log) :
        (log[k].op = "hook" /\ log[j].op = "rewrite") => j < k

\* C15 (amended): the path of a test is rewritten right before the hook is
\* called for that test, and the tests are taken one by one in the order of
\* the selection: what is done for a test, rewrite and hook, precedes what
\* is done for a later test.
C15_PerTest ==
    \A k \in 1..Len(log) :
        /\ log[k].op = "hook" => (k > 1 /\ log[k - 1] = Op("rewrite", log[k].i))
        /\ \A j \in 1..Len(log) :
              (/\ log[k].op \in {"rewrite", "hook"}
               /\ log[j].op \in {"rewrite", "hook"}
               /\ log[k].i < log[j].i) => k < j

C15_Witness ==
    /\ pc = "done"
    /\ \E k \in 1..Len(log) :
          /\ k + 3 <= Len(log)
          /\ log[k] = Op("rewrite", 1) /\ log[k + 1] = Op("hook", 1)
          /\ log[k + 2] = Op("rewrite", 2) /\ log[k + 3] = Op("hook", 2)

ConfReferenceUrl == Get(data0, "reference_url", PyNone)

\* C16: when reference_url and only_modified are both configured, the
\* diff query is run only after the 'reference' remote was registered and
\* then fetched in this run, both with success: the two operations right
\* before the query are the remote-add and the fetch, and neither failed.
C16_FetchedBeforeDiff ==
    (Truthy(ConfReferenceUrl) /\ OnlyModified) =>
        \A k \in 1..Len(log) :
            log[k].op = "log" =>
                /\ k > 2
                /\ log[k - 2] = Op("remote_add", 0)
                /\ log[k - 1] = Op("fetch", 0)
                /\ \A j \in 1..(k - 1) : log[j].op \in Fallible => log[j].ok

C16_Witness ==
    /\ Truthy(ConfReferenceUrl) /\ OnlyModified /\ pc = "done"
    /\ Ops = <<"clone", "checkout", "remote_add", "fetch", "log", "query">>
    /\ \A k \in 1..Len(log) : log[k].ok

\* The changed file is in a directory: its path has a separator.
HasDirectory(f) == \E k \in 1..Len(f) : f[k] = "/"

\* C17: a changed file of the tree's root, whose path has no directory,
\* and the empty lines of the diff output give no pattern: every pattern of
\* the modified set is that of a changed file that is in a directory, the
\* pattern ^/$ of the empty name is never in the set, and a diff of files of
\* the root only gives the empty set.
C17_RootFilesDropped ==
    DiffDone =>
        /\ \A p \in modified :
              \E f \in Range(changed) : HasDirectory(f) /\ p = Anchored(DirOf(f))
        /\ <<"^", "/", "$">> \notin modified
        /\ (\A f \in Range(changed) : ~HasDirectory(f)) => modified = {}

C17_Witness ==
    /\ DiffDone /\ pc = "done"
    /\ changed = << <<"x">> >>
    /\ modified = {}

\* C18: after wake(), for every configuration and command line, `test` and
\* `filter`, where the configuration has them, are sequences (a list, or
\* the tuple of the command line's values), never a bare scalar: a scalar of
\* the configuration has become the list of it, and a value given on the
\* command line has replaced the configured one; the legacy keys
\* `repository` and `revision` are gone and their values are those of `url`
\* and `ref`, unless the command line gives these.
C18_WakeNormalises ==
    pc # "init" =>
        /\ \A key \in {"test", "filter"} :
              /\ key \in DOMAIN data0 =>
                    /\ data0[key].t \in {"list", "tuple"}
                    /\ data[key].t \in {"list", "tuple"}
              /\ opts[key].v # <<>> => (key \in DOMAIN data0 /\ data0[key] = opts[key])
              /\ (opts[key].v = <<>> /\ key \in DOMAIN conf) =>
                    /\ key \in DOMAIN data0
                    /\ data0[key] = IF conf[key].t = "str"
                                    THEN PyList(<<conf[key].v>>) ELSE conf[key]
        /\ DOMAIN data0 \cap {"repository", "revision"} = {}
        /\ ("repository" \in DOMAIN conf /\ opts["url"].t = "none") =>
              ("url" \in DOMAIN data0 /\ data0["url"] = conf["repository"])
        /\ ("revision" \in DOMAIN conf /\ opts["ref"].t = "none") =>
              ("ref" \in DOMAIN data0 /\ data0["ref"] = conf["revision"])

C18_Witness ==
    /\ pc = "woken"
    /\ {"repository", "revision", "test", "filter"} \subseteq DOMAIN conf
    /\ conf["test"] = PyStr(S_foo) /\ conf["filter"] = PyStr(S_tier1)
    /\ data0["test"] = PyList(<<S_foo>>)
    /\ data0["filter"] = PyTuple(<<S_tier1>>) /\ opts["filter"] = PyTuple(<<S_tier1>>)
    /\ data0["url"] = PyStr(S_url) /\ data0["ref"] = PyStr(S_ref)
    /\ DOMAIN data0 = {"url", "ref", "test", "filter"}

\* C19 (the claim as made): go() leaves the stored configuration as wake()
\* left it: at every point of a run, and after it, self.data is what it was
\* when go() was entered, so the configured `test` holds the patterns it
\* held before the run.
C19_ConfigurationUnchanged ==
    pc # "init" => data = data0

====
